---- MODULE Spec2Model ----
(***************************************************************************)
(* Model of examples/JUCE - Marshall Blues Breaker/audio_analyzer.py:      *)
(* the command-line entry point and analyze_wav(), one action per block of *)
(* statements between two observable outputs.                              *)
(*                                                                         *)
(* Number representation.  A decoded sample is k/32768 for an int16 k, or  *)
(* the mean of two such values for a stereo frame, so every element of     *)
(* audio_float is h/65536 for an integer h; the model stores h.  All these *)
(* values are exact in float32.  Comparisons against the decimal           *)
(* thresholds of the source are made in exact integer arithmetic; no       *)
(* value h/65536 lies between a threshold and its float32 rounding.        *)
(***************************************************************************)
EXTENDS Integers, Sequences, FiniteSets

\* ------------------------------------------------------------------ bounds
\* longest raw int16 buffer (np.frombuffer result) the model enumerates
MaxSamples == 3
\* frames of the longer two-level (square-wave) recordings
ToneLen == 10

\* ------------------------------------------------------- program constants
\* 2 * 32768: the divisor of line 47 in the model's unit of 1/65536
FullScale == 65536
\* largest peak (in 1/65536) with 20*log10(peak + 1e-10) < -24:
\* 65536 * 10^(-24/20) = 4135.04
QuietMax == 4135

\* int16 values the raw buffer is drawn from: both sides of every threshold
\* of the source (0.99 -> 32440.32, 0.95 -> 31129.6, -24 dB -> 2067.52,
\* 0.01 -> 327.68), 0.97 (31785), and the two full-scale codes
Samples == {-32768, 0, 328, 2067, 2068, 31129, 31130, 31785, 32440, 32441, 32767}
\* channel counts and sample widths (bytes) of the headers the model draws
Channels == {1, 2}
SampWidths == {1, 2, 4}
\* np.float32 scalar + Python float: float64 under value-based casting
\* (NumPy 1.x), float32 under NEP 50 (NumPy 2.x)
Promotions == {"float64", "float32"}

\* --------------------------------------------------------------- helpers
Abs(x) == IF x < 0 THEN -x ELSE x

RECURSIVE SeqSum(_)
SeqSum(s) == IF s = <<>> THEN 0 ELSE Head(s) + SeqSum(Tail(s))

RECURSIVE SeqMaxAbs(_)
\* np.max(np.abs(a)); the program reaches it with a non-empty array only
\* (see MaxRaises), magnitudes are >= 0
SeqMaxAbs(s) == IF s = <<>> THEN 0
                ELSE LET m == SeqMaxAbs(Tail(s))
                     IN  IF Abs(Head(s)) > m THEN Abs(Head(s)) ELSE m

\* a reduction that returns instead of raising on a zero-size array
MaxRaises_Never(a) == FALSE
\* line 55: np.max raises ValueError on a zero-size array
MaxRaises(a) == a = <<>>

\* sequences over S of length exactly n
SeqsOfLen(S, n) == [1..n -> S]

\* ----------------------------------------------------------------- inputs
\* a WAV file wave.open accepts: header fields and the data chunk, given as
\* the int16 words np.frombuffer reads from its nframes*nchannels*sampwidth
\* bytes (a trailing odd byte belongs to no word)
NBytes(f) == f.nframes * f.nchannels * f.sampwidth

WavFiles ==
  UNION { UNION { UNION { { [kind |-> "wav", nchannels |-> c, sampwidth |-> w,
                             framerate |-> 44100, nframes |-> n, words |-> d]
                            : d \in SeqsOfLen(Samples, (n * c * w) \div 2) }
                          : n \in {m \in 0..(2 * MaxSamples) :
                                     (m * c * w) \div 2 <= MaxSamples} }
                  : w \in SampWidths }
          : c \in Channels }

\* a header with frame rate 0 (wave.open does not validate the rate); the
\* data chunk is never read
ZeroRateFiles ==
  { [kind |-> "wav", nchannels |-> c, sampwidth |-> 2, framerate |-> 0,
     nframes |-> 0, words |-> <<>>] : c \in Channels }

\* 16-bit mono recordings of ToneLen frames alternating between two levels
ToneFiles ==
  { [kind |-> "wav", nchannels |-> 1, sampwidth |-> 2, framerate |-> 44100,
     nframes |-> ToneLen,
     words |-> [i \in 1..ToneLen |-> IF i % 2 = 1 THEN x ELSE y]]
    : x \in Samples, y \in Samples }

\* paths that are not a readable WAV file
OtherFiles ==
  { [kind |-> k, nchannels |-> 0, sampwidth |-> 0, framerate |-> 0,
     nframes |-> 0, words |-> <<>>] : k \in {"missing", "notwav", "unreadable"} }

Files == WavFiles \cup ToneFiles \cup ZeroRateFiles \cup OtherFiles

NoErr == [type |-> "none", at |-> "none"]
Raise(t, a) == [type |-> t, at |-> a]

VARIABLES
  argv,         \* TRUE when a path argument is given (len(sys.argv) >= 2)
  file,         \* what the path refers to
  pc,           \* position in the program
  out,          \* lines/sections written to standard output, in order
  opens,        \* number of wave.open calls made
  err,          \* the exception in flight or handled, NoErr when none
  audio_float,  \* the normalised mono sequence, in units of 1/65536
  success,      \* return value of analyze_wav
  exit_code     \* argument of sys.exit, -1 while running

VARIABLES
  peak,          \* np.max(np.abs(audio_float)), in units of 1/65536
  peak_db,       \* 20*log10(peak + 1e-10), as its position relative to the
                 \* two levels the program tests: "pos" (> 0), "zero" (= 0),
                 \* "neg" (-24 <= . < 0), "quiet" (< -24)
  rms,           \* [sumsq, n]: rms = sqrt(sumsq / n) in units of 1/65536
  mean_val,      \* [num, den]: np.mean(audio_float) = num / den / 65536
  crest,         \* "finite" once peak / (rms + 1e-10) is computed
  hard_clip,     \* count of samples with abs >= 0.99
  soft_clip,     \* count of samples with 0.95 <= abs < 0.99
  hard_clip_pct, \* [num, den]: percentage num / den
  soft_clip_pct, \* [num, den]
  clip_status,   \* STATUS line of the clipping section
  thd_est,       \* min(100, ...), rounded down to the breakpoints the
                 \* program tests: 0, 5, 15, 50, 100; -1 for NaN
  character,     \* CHARACTER line of the distortion section
  noise_floor,   \* "nan" or "finite"
  snr,           \* "nan", or its position relative to 20 and 40 dB
  quality,       \* QUALITY line of the noise-floor section
  empty_means,   \* the quantities whose np.mean ran over an empty slice
  score, issues, grade

met == <<peak, peak_db, rms, mean_val, crest, hard_clip, soft_clip,
         hard_clip_pct, soft_clip_pct, clip_status, thd_est, character,
         noise_floor, snr, quality, empty_means, score, issues, grade>>

vars == <<argv, file, pc, out, opens, err, audio_float, success, exit_code,
          peak, peak_db, rms, mean_val, crest, hard_clip, soft_clip,
          hard_clip_pct, soft_clip_pct, clip_status, thd_est, character,
          noise_floor, snr, quality, empty_means, score, issues, grade>>

\* ------------------------------------------- exact arithmetic on naturals
\* Sums of squares of samples exceed 32 bits; they are kept as little-endian
\* sequences of base-1000 digits.
RECURSIVE BigNorm(_, _)
BigNorm(s, carry) ==
  IF s = <<>>
  THEN IF carry = 0 THEN <<>>
       ELSE <<carry % 1000>> \o BigNorm(<<>>, carry \div 1000)
  ELSE LET v == Head(s) + carry
       IN  <<v % 1000>> \o BigNorm(Tail(s), v \div 1000)

BigNat(n) == BigNorm(<<>>, n)
\* a * k for a natural k < 2^21
BigMul(a, k) == BigNorm([i \in 1..Len(a) |-> a[i] * k], 0)
BigDigit(a, i) == IF i <= Len(a) THEN a[i] ELSE 0
BigAdd(a, b) ==
  LET n == IF Len(a) > Len(b) THEN Len(a) ELSE Len(b)
  IN  BigNorm([i \in 1..n |-> BigDigit(a, i) + BigDigit(b, i)], 0)

RECURSIVE BigCmpFrom(_, _, _)
\* sign of a - b, comparing digits i, i-1, ..., 1
BigCmpFrom(a, b, i) ==
  IF i = 0 THEN 0
  ELSE IF BigDigit(a, i) > BigDigit(b, i) THEN 1
  ELSE IF BigDigit(a, i) < BigDigit(b, i) THEN -1
  ELSE BigCmpFrom(a, b, i - 1)
BigLess(a, b) ==
  BigCmpFrom(a, b, IF Len(a) > Len(b) THEN Len(a) ELSE Len(b)) < 0

RECURSIVE SumSq(_)
\* sum of the squares of the elements of s
SumSq(s) == IF s = <<>> THEN <<>>
            ELSE BigAdd(BigMul(BigNat(Abs(Head(s))), Abs(Head(s))), SumSq(Tail(s)))

\* ------------------------------------------------- decoder and reducer
\* lines 39-47: reshape((-1, c)), np.mean(axis=1), astype(float32) / 32768.0;
\* element i is the mean of frame i over 32768, i.e. 2 * sum / c in 1/65536
Mono(words, c) ==
  [i \in 1..(Len(words) \div c) |->
     (2 * SeqSum(SubSeq(words, (i - 1) * c + 1, i * c))) \div c]

\* ------------------------------------------------------- metric suite
\* line 56: peak + 1e-10 is 1.0000000001 in float64 and 1.0 in float32 when
\* peak = 1.0, and below 1 for every other peak
PeakDb(p, promo) ==
  IF p >= FullScale THEN (IF promo = "float64" THEN "pos" ELSE "zero")
  ELSE IF p <= QuietMax THEN "quiet"
  ELSE "neg"

\* the two tests the program makes on peak_db (lines 128, 138)
DbAboveZero(db) == db = "pos"
DbBelowMinus24(db) == db = "quiet"

\* abs(x) >= num/den for a sample x = h/65536
MagAtLeast(h, num, den) == Abs(h) * den >= num * FullScale

\* line 75
IsHardClip(h) == MagAtLeast(h, 99, 100)
\* the soft band without its upper limit
IsSoftClip_NoUpper(h) == MagAtLeast(h, 95, 100)
\* line 76
IsSoftClip(h) == MagAtLeast(h, 95, 100) /\ ~MagAtLeast(h, 99, 100)

\* line 75: np.sum of the boolean mask
HardClipCount(a) == Cardinality({i \in 1..Len(a) : IsHardClip(a[i])})
\* line 76
SoftClipCount(a) == Cardinality({i \in 1..Len(a) : IsSoftClip(a[i])})

\* lines 78-79: (count / len) * 100
Pct(cnt, n) == [num |-> cnt * 100, den |-> n]
\* r > num/den for a non-negative rational r
RatGT(r, num, den) == r.num * den > num * r.den

\* lines 85-90
ClipStatus(hpct, spct) ==
  IF RatGT(hpct, 1, 10) THEN "CLIPPING DETECTED"
  ELSE IF RatGT(spct, 1, 1) THEN "Soft clipping"
  ELSE "No clipping"

\* floats whose value may be NaN
FNaN == [nan |-> TRUE, v |-> 0]
F(x) == [nan |-> FALSE, v |-> x]
\* a < b in IEEE arithmetic: false when either side is NaN
FLess(a, b) == ~a.nan /\ ~b.nan /\ a.v < b.v
\* Python's min(a, b): b if b < a, otherwise a
PyMin(a, b) == IF FLess(b, a) THEN b ELSE a

\* line 94: sum of abs(a[i] - a[N+1-i]) over the first half_size indices
SymDiffSum(a, half) ==
  SeqSum([i \in 1..half |-> Abs(a[i] - a[Len(a) + 1 - i])])

\* sym_error / (rms + 1e-10) * 100 >= t, for sym_error = S / half and
\* rms = sqrt(Q / N) > 0:  10^4 * S^2 * N >= t^2 * half^2 * Q
RatioAtLeast(a, half, t) ==
  LET S == SymDiffSum(a, half)
      lhs == BigMul(BigMul(BigMul(BigNat(S), S), Len(a)), 10000)
      rhs == BigMul(BigMul(BigMul(SumSq(a), t * t), half), half)
  IN  ~BigLess(lhs, rhs)

\* line 95, second argument of min, rounded down to 0, 5, 15, 50, 100
ThdRatio(a) ==
  LET half == Len(a) \div 2
  IN  IF half = 0 THEN FNaN
      ELSE IF SymDiffSum(a, half) = 0 THEN F(0)
      ELSE IF RatioAtLeast(a, half, 100) THEN F(100)
      ELSE IF RatioAtLeast(a, half, 50) THEN F(50)
      ELSE IF RatioAtLeast(a, half, 15) THEN F(15)
      ELSE IF RatioAtLeast(a, half, 5) THEN F(5)
      ELSE F(0)

\* line 95
ThdEst(a) == PyMin(F(100), ThdRatio(a))

\* lines 99-106
Character(thd) ==
  IF FLess(thd, F(5)) THEN "Clean"
  ELSE IF FLess(thd, F(15)) THEN "Light distortion"
  ELSE IF FLess(thd, F(50)) THEN "Heavy distortion"
  ELSE "Extreme distortion"

RECURSIVE Insert(_, _)
Insert(x, s) == IF s = <<>> THEN <<x>>
                ELSE IF x <= Head(s) THEN <<x>> \o s
                ELSE <<Head(s)>> \o Insert(x, Tail(s))
RECURSIVE SortedMag(_)
\* line 109: np.sort(np.abs(a))
SortedMag(a) == IF a = <<>> THEN <<>> ELSE Insert(Abs(Head(a)), SortedMag(Tail(a)))

\* line 110
NoiseFloorIdx(a) == Len(a) \div 10

\* (peak + 1e-10) / (noise_floor + 1e-10) > r, for a defined noise floor
\* sqrt(L / idx):  peak^2 * idx > r^2 * L;  with L = 0 the quotient is
\* peak * 1e10 + 1
SnrRatioAbove(a, p, r) ==
  LET idx == NoiseFloorIdx(a)
      L == SumSq(SubSeq(SortedMag(a), 1, idx))
  IN  IF BigCmpFrom(L, <<>>, Len(L)) = 0 THEN p > 0
      ELSE BigLess(BigMul(BigMul(L, r), r), BigMul(BigMul(BigNat(p), p), idx))

\* line 111: NaN when the slice sorted_mag[:idx] is empty
NoiseFloor(a) == IF NoiseFloorIdx(a) = 0 THEN "nan" ELSE "finite"

\* line 112, as the position of snr relative to 20 dB and 40 dB
Snr(a, p) ==
  IF NoiseFloorIdx(a) = 0 THEN "nan"
  ELSE IF SnrRatioAbove(a, p, 100) THEN "gt40"
  ELSE IF SnrRatioAbove(a, p, 10) THEN "gt20"
  ELSE "le20"

\* lines 116-121
Quality(s) ==
  IF s = "gt40" THEN "Excellent"
  ELSE IF s \in {"gt20", "gt40"} THEN "Good"
  ELSE "Poor"

\* ------------------------------------------------------ verdict engine
\* line 142: abs(mean_val) > 0.01 for mean_val = num / den / 65536
DcOffsetPresent(m) == Abs(m.num) * 100 > m.den * FullScale

\* the three clipping rules as independent ifs instead of if / elif / elif
ClipRule_Cumulative(db, hpct, spct) ==
  LET a == IF DbAboveZero(db) THEN 40 ELSE 0
      b == IF RatGT(hpct, 1, 10) THEN 30 ELSE 0
      c == IF RatGT(spct, 2, 1) THEN 10 ELSE 0
  IN  [pen |-> a + b + c,
       issue |-> (IF a > 0 THEN <<"CRITICAL: Digital clipping">> ELSE <<>>)
                 \o (IF b > 0 THEN <<"Hard clipping detected">> ELSE <<>>)
                 \o (IF c > 0 THEN <<"Moderate soft clipping">> ELSE <<>>)]
\* lines 128-136: the if / elif / elif chain
ClipRule(db, hpct, spct) ==
  IF DbAboveZero(db) THEN [pen |-> 40, issue |-> <<"CRITICAL: Digital clipping">>]
  ELSE IF RatGT(hpct, 1, 10) THEN [pen |-> 30, issue |-> <<"Hard clipping detected">>]
  ELSE IF RatGT(spct, 2, 1) THEN [pen |-> 10, issue |-> <<"Moderate soft clipping">>]
  ELSE [pen |-> 0, issue |-> <<>>]

\* lines 138-140
QuietRule(db) ==
  IF DbBelowMinus24(db) THEN [pen |-> 20, issue |-> <<"Signal too quiet">>]
  ELSE [pen |-> 0, issue |-> <<>>]

\* lines 142-144
DcRule(m) ==
  IF DcOffsetPresent(m) THEN [pen |-> 10, issue |-> <<"DC offset present">>]
  ELSE [pen |-> 0, issue |-> <<>>]

\* lines 125-144
Assess(db, hpct, spct, m) ==
  LET c == ClipRule(db, hpct, spct)
      q == QuietRule(db)
      d == DcRule(m)
  IN  [score |-> 100 - c.pen - q.pen - d.pen,
       issues |-> c.issue \o q.issue \o d.issue]

\* the "C" bucket with a strict comparison
Grade_Strict60(sc) ==
  IF sc >= 90 THEN "A+"
  ELSE IF sc >= 80 THEN "A"
  ELSE IF sc >= 70 THEN "B"
  ELSE IF sc > 60 THEN "C"
  ELSE "F"
\* lines 147-156
Grade(sc) ==
  IF sc >= 90 THEN "A+"
  ELSE IF sc >= 80 THEN "A"
  ELSE IF sc >= 70 THEN "B"
  ELSE IF sc >= 60 THEN "C"
  ELSE "F"

\* an exit status that ignores the result
ExitCode_AlwaysZero(ok) == 0
\* line 182
ExitCode(ok) == IF ok THEN 0 ELSE 1

\* ------------------------------------------------------------ the program
Init ==
  /\ argv \in BOOLEAN
  /\ file \in Files
  /\ pc = "main"
  /\ out = <<>>
  /\ opens = 0
  /\ err = NoErr
  /\ audio_float = <<>>
  /\ success = FALSE
  /\ exit_code = -1
  /\ peak = 0 /\ peak_db = "unset"
  /\ rms = [sumsq |-> <<>>, n |-> 0]
  /\ mean_val = [num |-> 0, den |-> 0]
  /\ crest = "unset"
  /\ hard_clip = 0 /\ soft_clip = 0
  /\ hard_clip_pct = Pct(0, 0) /\ soft_clip_pct = Pct(0, 0)
  /\ clip_status = "unset"
  /\ thd_est = F(0) /\ character = "unset"
  /\ noise_floor = "unset" /\ snr = "unset" /\ quality = "unset"
  /\ empty_means = {}
  /\ score = 0 /\ issues = <<>> /\ grade = "unset"

\* lines 176-181: usage error, or the call of analyze_wav
Main ==
  /\ pc = "main"
  /\ IF ~argv
     THEN /\ out' = Append(out, "Usage")
          /\ exit_code' = 1
          /\ pc' = "exited"
     ELSE /\ pc' = "exists"
          /\ UNCHANGED <<out, exit_code>>
  /\ UNCHANGED <<argv, file, opens, err, audio_float, success>>
  /\ UNCHANGED met

\* lines 11-16
CheckExists ==
  /\ pc = "exists"
  /\ IF file.kind = "missing"
     THEN /\ out' = Append(out, "Error: File not found")
          /\ success' = FALSE
          /\ pc' = "return"
     ELSE /\ out' = Append(out, "Reading file")
          /\ pc' = "open"
          /\ UNCHANGED success
  /\ UNCHANGED <<argv, file, opens, err, audio_float, exit_code>>
  /\ UNCHANGED met

\* lines 18-30: wave.open, the header getters and the Audio Properties lines
OpenWav ==
  /\ pc = "open"
  /\ opens' = opens + 1
  /\ CASE file.kind = "notwav" ->
            /\ err' = Raise("wave.Error", "open")
            /\ pc' = "except"
            /\ UNCHANGED out
       [] file.kind = "unreadable" ->
            /\ err' = Raise("OSError", "open")
            /\ pc' = "except"
            /\ UNCHANGED out
       [] file.kind = "wav" /\ file.framerate = 0 ->
            \* lines 25-29 are printed, line 30 divides by zero
            /\ out' = Append(out, "Audio Properties (without Duration)")
            /\ err' = Raise("ZeroDivisionError", "duration")
            /\ pc' = "except"
       [] file.kind = "wav" /\ file.framerate # 0 ->
            /\ out' = Append(out, "Audio Properties")
            /\ pc' = "decode"
            /\ UNCHANGED err
  /\ UNCHANGED <<argv, file, audio_float, success, exit_code>>
  /\ UNCHANGED met

\* lines 33-52: readframes, frombuffer(int16), reshape and mix, normalise,
\* and the analysis banner
Decode ==
  /\ pc = "decode"
  /\ IF NBytes(file) % 2 # 0
     THEN \* line 36: buffer size must be a multiple of element size
          /\ err' = Raise("ValueError", "frombuffer")
          /\ pc' = "except"
          /\ UNCHANGED <<out, audio_float>>
     ELSE IF file.nchannels > 1 /\ Len(file.words) % file.nchannels # 0
     THEN \* line 40: cannot reshape
          /\ err' = Raise("ValueError", "reshape")
          /\ pc' = "except"
          /\ UNCHANGED <<out, audio_float>>
     ELSE /\ audio_float' = Mono(file.words, file.nchannels)
          /\ out' = Append(out, "GUITAR OUTPUT ANALYSIS")
          /\ pc' = "signal"
          /\ UNCHANGED err
  /\ UNCHANGED <<argv, file, opens, success, exit_code>>
  /\ UNCHANGED met

\* lines 55-72: peak, rms, DC offset, crest factor
SignalMetrics ==
  /\ pc = "signal"
  /\ IF MaxRaises(audio_float)
     THEN \* line 55: np.max of a zero-size array raises ValueError
          /\ err' = Raise("ValueError", "max")
          /\ pc' = "except"
          /\ UNCHANGED <<out, peak, peak_db, rms, mean_val, crest>>
     ELSE /\ peak' = SeqMaxAbs(audio_float)
          /\ \E promo \in Promotions : peak_db' = PeakDb(peak', promo)
          /\ rms' = [sumsq |-> SumSq(audio_float), n |-> Len(audio_float)]
          /\ mean_val' = [num |-> SeqSum(audio_float), den |-> Len(audio_float)]
          /\ crest' = "finite"
          /\ out' = Append(out, "SIGNAL METRICS")
          /\ pc' = "clipping"
          /\ UNCHANGED err
  /\ UNCHANGED <<argv, file, opens, audio_float, success, exit_code>>
  /\ UNCHANGED <<hard_clip, soft_clip, hard_clip_pct, soft_clip_pct, clip_status,
                 thd_est, character, noise_floor, snr, quality, empty_means,
                 score, issues, grade>>

\* lines 75-90
ClippingAnalysis ==
  /\ pc = "clipping"
  /\ hard_clip' = HardClipCount(audio_float)
  /\ soft_clip' = SoftClipCount(audio_float)
  /\ hard_clip_pct' = Pct(hard_clip', Len(audio_float))
  /\ soft_clip_pct' = Pct(soft_clip', Len(audio_float))
  /\ clip_status' = ClipStatus(hard_clip_pct', soft_clip_pct')
  /\ out' = Append(out, "CLIPPING ANALYSIS")
  /\ pc' = "distortion"
  /\ UNCHANGED <<argv, file, opens, err, audio_float, success, exit_code>>
  /\ UNCHANGED <<peak, peak_db, rms, mean_val, crest, thd_est, character,
                 noise_floor, snr, quality, empty_means, score, issues, grade>>

\* lines 93-106
Distortion ==
  /\ pc = "distortion"
  /\ thd_est' = ThdEst(audio_float)
  /\ character' = Character(thd_est')
  /\ empty_means' = IF Len(audio_float) \div 2 = 0
                    THEN empty_means \cup {"sym_error"} ELSE empty_means
  /\ out' = Append(out, "DISTORTION")
  /\ pc' = "noise"
  /\ UNCHANGED <<argv, file, opens, err, audio_float, success, exit_code>>
  /\ UNCHANGED <<peak, peak_db, rms, mean_val, crest, hard_clip, soft_clip,
                 hard_clip_pct, soft_clip_pct, clip_status,
                 noise_floor, snr, quality, score, issues, grade>>

\* lines 109-121
NoiseFloorAnalysis ==
  /\ pc = "noise"
  /\ noise_floor' = NoiseFloor(audio_float)
  /\ snr' = Snr(audio_float, peak)
  /\ quality' = Quality(snr')
  /\ empty_means' = IF NoiseFloorIdx(audio_float) = 0
                    THEN empty_means \cup {"noise_floor"} ELSE empty_means
  /\ out' = Append(out, "NOISE FLOOR")
  /\ pc' = "assess"
  /\ UNCHANGED <<argv, file, opens, err, audio_float, success, exit_code>>
  /\ UNCHANGED <<peak, peak_db, rms, mean_val, crest, hard_clip, soft_clip,
                 hard_clip_pct, soft_clip_pct, clip_status, thd_est, character,
                 score, issues, grade>>

\* lines 124-167
FinalAssessment ==
  /\ pc = "assess"
  /\ LET v == Assess(peak_db, hard_clip_pct, soft_clip_pct, mean_val)
     IN  /\ score' = v.score
         /\ issues' = v.issues
  /\ grade' = Grade(score')
  /\ out' = Append(out, "FINAL ASSESSMENT")
  /\ success' = TRUE
  /\ pc' = "return"
  /\ UNCHANGED <<argv, file, opens, err, audio_float, exit_code>>
  /\ UNCHANGED <<peak, peak_db, rms, mean_val, crest, hard_clip, soft_clip,
                 hard_clip_pct, soft_clip_pct, clip_status, thd_est, character,
                 noise_floor, snr, quality, empty_means>>

\* lines 169-171
ExceptWaveError ==
  /\ pc = "except"
  /\ err.type = "wave.Error"
  /\ out' = Append(out, "Error reading WAV file")
  /\ success' = FALSE
  /\ pc' = "return"
  /\ UNCHANGED <<argv, file, opens, err, audio_float, exit_code>>
  /\ UNCHANGED met

\* lines 172-174
ExceptException ==
  /\ pc = "except"
  /\ err.type # "wave.Error"
  /\ out' = Append(out, "Error")
  /\ success' = FALSE
  /\ pc' = "return"
  /\ UNCHANGED <<argv, file, opens, err, audio_float, exit_code>>
  /\ UNCHANGED met

\* lines 181-182
Exit ==
  /\ pc = "return"
  /\ exit_code' = ExitCode(success)
  /\ pc' = "exited"
  /\ UNCHANGED <<argv, file, out, opens, err, audio_float, success>>
  /\ UNCHANGED met

Next ==
  \/ Main
  \/ CheckExists
  \/ OpenWav
  \/ Decode
  \/ SignalMetrics
  \/ ClippingAnalysis
  \/ Distortion
  \/ NoiseFloorAnalysis
  \/ FinalAssessment
  \/ ExceptWaveError
  \/ ExceptException
  \/ Exit

Spec == Init /\ [][Next]_vars

\* ------------------------------------------------------------ properties
Reported(sec) == \E i \in DOMAIN out : out[i] = sec
HasIssue(txt) == \E i \in DOMAIN issues : issues[i] = txt
\* the run got past the Decoder and the Channel Reducer
Decoded == Reported("GUITAR OUTPUT ANALYSIS")
\* analyze_wav returned True
Analysed == pc \in {"return", "exited"} /\ success
MetricSections == {"SIGNAL METRICS", "CLIPPING ANALYSIS", "DISTORTION", "NOISE FLOOR"}
ReportSections == {"Audio Properties", "Audio Properties (without Duration)",
                   "FINAL ASSESSMENT"} \cup MetricSections
ClipIssues == {"CRITICAL: Digital clipping", "Hard clipping detected",
               "Moderate soft clipping"}
ErrorMessages == {"Usage", "Error: File not found", "Error reading WAV file", "Error"}
N == Len(audio_float)

\* C1: the score is 100 - C - Q - D with C the penalty of the first matching
\* clipping rule (40 if peak_dB >= 0, else 30 if hard_clip_pct > 0.1, else 10
\* if soft_clip_pct > 2), Q = 20 if peak_dB < -24, D = 10 if
\* abs(dc_offset) > 0.01; at most one clipping issue is listed, that of the
\* highest-priority matching rule.
C1_ScoreIsHundredMinusPenalties ==
  Analysed =>
    LET digital == peak_db \in {"pos", "zero"}
        hard == hard_clip * 1000 > N
        soft == soft_clip * 100 > 2 * N
        C == IF digital THEN 40 ELSE IF hard THEN 30 ELSE IF soft THEN 10 ELSE 0
        Q == IF peak_db = "quiet" THEN 20 ELSE 0
        D == IF Abs(SeqSum(audio_float)) * 100 > N * FullScale THEN 10 ELSE 0
    IN  /\ score = 100 - C - Q - D
        /\ Cardinality({i \in DOMAIN issues : issues[i] \in ClipIssues}) <= 1
        /\ HasIssue("CRITICAL: Digital clipping") <=> digital
        /\ HasIssue("Hard clipping detected") <=> (~digital /\ hard)
        /\ HasIssue("Moderate soft clipping") <=> (~digital /\ ~hard /\ soft)

\* C2: when every sample has magnitude 1.0 the score includes the 40-point
\* digital-clipping penalty and the grade is "F".
C2_FullScaleGetsClipPenaltyAndF ==
  (Analysed /\ \A i \in DOMAIN audio_float : Abs(audio_float[i]) = FullScale)
    => /\ HasIssue("CRITICAL: Digital clipping")
       /\ score <= 60
       /\ grade = "F"

\* C3: a decoded waveform of zero samples makes the run fail in the Metric
\* Suite: no metric section is ever reported, the error is reported and the
\* exit code is 1.
C3_EmptyBufferFails ==
  (Decoded /\ audio_float = <<>>) =>
    /\ \A sec \in MetricSections \cup {"FINAL ASSESSMENT"} : ~Reported(sec)
    /\ pc \in {"signal", "except", "return", "exited"}
    /\ pc \in {"except", "return", "exited"} => err = Raise("ValueError", "max")
    /\ pc \in {"return", "exited"} => (~success /\ Reported("Error"))
    /\ pc = "exited" => exit_code = 1
C3_Witness ==
  Decoded /\ audio_float = <<>> /\ pc = "exited" /\ exit_code = 1

\* C4: a run of analyze_wav either emits the complete report and succeeds,
\* or fails having emitted no part of the report.
C4_NoPartialReport ==
  (pc = "exited" /\ argv) =>
    \/ success /\ \A sec \in MetricSections \cup {"Audio Properties", "FINAL ASSESSMENT"} :
                     Reported(sec)
    \/ ~success /\ \A sec \in ReportSections : ~Reported(sec)

\* C5: the exit code is 0 exactly when the analysis completed; it is 1 for a
\* missing path (found before any open), an unreadable or unparsable
\* container, any other error, and a missing argument; an error is reported
\* once and the file is opened at most once.
C5_ExitCode ==
  /\ opens <= 1
  /\ pc = "exited" =>
       /\ exit_code \in {0, 1}
       /\ exit_code = 0 <=> (argv /\ err = NoErr /\ Reported("FINAL ASSESSMENT"))
       /\ ~argv => (exit_code = 1 /\ out = <<"Usage">>)
       /\ (argv /\ file.kind = "missing") =>
            (exit_code = 1 /\ opens = 0 /\ Reported("Error: File not found"))
       /\ (argv /\ file.kind = "notwav") =>
            (exit_code = 1 /\ Reported("Error reading WAV file"))
       /\ (argv /\ file.kind = "unreadable") => (exit_code = 1 /\ Reported("Error"))
       /\ err # NoErr =>
            /\ exit_code = 1
            /\ out[Len(out)] \in {"Error reading WAV file", "Error"}
            /\ Cardinality({i \in DOMAIN out : out[i] \in ErrorMessages}) = 1
C5_Witness ==
  pc = "exited" /\ exit_code = 1 /\ err.type = "ValueError" /\ opens = 1

\* C6: after a successful analysis the score is an integer in [0,100] and
\* the grade is the bucket of the score.
C6_ScoreRangeAndGrade ==
  Analysed =>
    /\ score \in 0..100
    /\ score >= 90 => grade = "A+"
    /\ (score >= 80 /\ score < 90) => grade = "A"
    /\ (score >= 70 /\ score < 80) => grade = "B"
    /\ (score >= 60 /\ score < 70) => grade = "C"
    /\ score < 60 => grade = "F"
C6_Witness == Analysed /\ score = 60 /\ grade = "C"

\* C7: every sample is counted by at most one clipping counter, so
\* hard_clip_count + soft_clip_count is the number of samples with
\* abs >= 0.95 and at most N; one sample at 0.97 among zeros gives
\* soft_clip_count = 1 and hard_clip_count = 0.
C7_ClipCountersPartition ==
  Reported("CLIPPING ANALYSIS") =>
    LET over95 == {i \in DOMAIN audio_float : 100 * Abs(audio_float[i]) >= 95 * 65536}
        over99 == {i \in DOMAIN audio_float : 100 * Abs(audio_float[i]) >= 99 * 65536}
        at97 == {i \in DOMAIN audio_float : audio_float[i] = 2 * 31785}
        zeros == {i \in DOMAIN audio_float : audio_float[i] = 0}
    IN  /\ hard_clip = Cardinality(over99)
        /\ soft_clip = Cardinality(over95 \ over99)
        /\ hard_clip + soft_clip = Cardinality(over95)
        /\ hard_clip + soft_clip <= N
        /\ (Cardinality(at97) = 1 /\ Cardinality(zeros) = N - 1)
             => (soft_clip = 1 /\ hard_clip = 0)
C7_Witness ==
  /\ Reported("CLIPPING ANALYSIS")
  /\ N = 3
  /\ Cardinality({i \in DOMAIN audio_float : audio_float[i] = 2 * 31785}) = 1
  /\ Cardinality({i \in DOMAIN audio_float : audio_float[i] = 0}) = 2
  /\ soft_clip = 1 /\ hard_clip = 0

\* C8: for a mono sequence of exactly one sample every metric is computed
\* over a non-empty set of samples to a defined value, with no error, and
\* thd_estimate_pct lies in [0,100].
C8_SingleSampleTolerated ==
  (Decoded /\ N = 1 /\ pc = "exited") =>
    /\ success /\ err = NoErr
    /\ empty_means = {}
    /\ crest = "finite"
    /\ noise_floor = "finite"
    /\ snr # "nan"
    /\ ~thd_est.nan /\ thd_est.v \in 0..100

\* C9: for a file the Decoder accepts, with c channels and n frames, the raw
\* buffer holds n * c samples, the mono sequence has n values, value i is the
\* mean of the c samples of frame i over the full-scale divisor, in [-1, 1].
C9_DecodedLengths ==
  Decoded =>
    LET c == file.nchannels
        n == file.nframes
    IN  /\ Len(file.words) = n * c
        /\ N = n
        /\ \A i \in DOMAIN audio_float :
             /\ c * audio_float[i] = 2 * SeqSum(SubSeq(file.words, (i - 1) * c + 1, i * c))
             /\ Abs(audio_float[i]) <= FullScale

\* C10: the "signal too quiet" penalty never accompanies a clipping penalty
\* (a quiet peak leaves both clipping counters at 0), so every score is a
\* multiple of 10 between 50 and 100, and grade "F" is given only when both
\* the digital-clipping rule and the DC-offset rule fired.
C10_QuietExcludesClipping ==
  Analysed =>
    /\ peak_db = "quiet" => (hard_clip = 0 /\ soft_clip = 0)
    /\ HasIssue("Signal too quiet") =>
         \A i \in DOMAIN issues : issues[i] \notin ClipIssues
    /\ score \in {50, 60, 70, 80, 90, 100}
    /\ grade = "F" =>
         (HasIssue("CRITICAL: Digital clipping") /\ HasIssue("DC offset present"))
C10_Witness ==
  Analysed /\ grade = "F" /\ score = 50

====
